---- MODULE Spec2Model ----
(***************************************************************************)
(* OncoScan backend (src/backend): token login, identity resolution, the   *)
(* admin routes, the /predict pipeline with its CSV audit log, and the     *)
(* process-wide ModelService.                                              *)
(*                                                                         *)
(* Conventions                                                             *)
(*  - A str is a TLA+ string, except file names, which are sequences of    *)
(*    one-character strings and opaque chunks (str.replace works on them). *)
(*  - A password hash is the record [scheme, plain]: verification succeeds *)
(*    exactly on the password that was hashed (salts are not modelled).    *)
(*  - A JWT is the record [sub, exp, key]: the claims and the signing key. *)
(*  - Python's None is a record with a distinguishing field (NoResponse,   *)
(*    NoService, ...).                                                     *)
(*  - An HTTP handler is one action, except where the code yields between  *)
(*    two accesses to shared state: predict_scan (await file.read()) and   *)
(*    upsert_company_profile (SELECT, then INSERT/UPDATE + COMMIT, run in  *)
(*    the thread pool).  `response` is the response on its way to the      *)
(*    client; Receive is the client taking it.  A request is taken up when *)
(*    no response is on its way; requests suspended inside a handler stay  *)
(*    suspended across other requests.                                     *)
(***************************************************************************)
EXTENDS Integers, Sequences, FiniteSets, TLC

\* ------------------------------------------------------------ input domains
Usernames == {"doc_user", "alice"}
Passwords == {"securepass", "pw"}
RoleInputs == {"admin", "doctor", "nurse"}

VARIABLES
    users,          \* table `user`: username -> [password_hash, role, disabled]
    company,        \* table `companyprofile`: the rows [id, name] in id order
    dbUp,           \* whether a query on ENGINE succeeds (else it raises)
    tokens,         \* the tokens clients hold (taken from /token responses)
    response,       \* the HTTP response in flight to the client
    procs,          \* requests suspended inside a handler, per worker slot
    audit_csv,      \* audit_log.csv: its lines, the header line first
    uploads,        \* the paths written under the uploads directory
    MODEL_SERVICE,  \* model._MODEL_SERVICE: NoService or the ModelService
    backend,        \* ONCOSCAN_MODEL_BACKEND, read by ModelService.__init__
    model_file,     \* what ONCOSCAN_MODEL_PATH holds: "missing" or a version
    uuid_next       \* uuid4 never returns the same value twice: a counter

vars == <<users, company, dbUp, tokens, response, procs, audit_csv, uploads,
          MODEL_SERVICE, backend, model_file, uuid_next>>

dbVars == <<users, company, dbUp>>

fileVars == <<audit_csv, uploads, uuid_next>>

modelVars == <<MODEL_SERVICE, backend, model_file>>

\* ------------------------------------------------------------------ auth.py
SECRET_KEY == "CHANGE_THIS"

pbkdf_hash(plain) == [scheme |-> "pbkdf2_sha256", plain |-> plain]

pwd_hash(plain) == [scheme |-> "bcrypt", plain |-> plain]

FAKE_USERS_DB ==
    [u \in {"doc_user"} |->
        [user_id |-> "doc_user", hashed_password |-> pbkdf_hash("securepass"),
         full_name |-> "Dr. Alice Onco", disabled |-> FALSE]]

verify_password(plain_password, hashed_password) ==
    /\ hashed_password.scheme \in {"bcrypt", "pbkdf2_sha256"}
    /\ hashed_password.plain = plain_password

create_access_token(data) ==
    [sub |-> data.sub, exp |-> "future", key |-> SECRET_KEY]

\* jwt.decode: the signature must verify and the expiry lie in the future.
jwt_decode(token) ==
    IF token.key = SECRET_KEY /\ token.exp = "future"
    THEN [ok |-> TRUE, sub |-> token.sub]
    ELSE [ok |-> FALSE, sub |-> ""]

Identity(status, user_id, role) ==
    [status |-> status, user_id |-> user_id, role |-> role]

\* The hardcoded identity, reached when the table lookup raised, missed, or
\* its HTTPException was swallowed by `except Exception: pass`.
fallback_user(user_id) ==
    IF user_id \notin DOMAIN FAKE_USERS_DB THEN Identity(401, "", "")
    ELSE IF FAKE_USERS_DB[user_id].disabled THEN Identity(400, "", "")
    ELSE Identity(200, user_id, "doctor")

\* The table branch of get_current_user: "hit" returns the stored identity;
\* a disabled row raises HTTPException(400) INSIDE the try block, whose
\* `except Exception: pass` swallows it, so resolution falls through.
db_branch(table, up, user_id) ==
    IF up /\ user_id \in DOMAIN table /\ ~table[user_id].disabled
    THEN "hit" ELSE "fallthrough"

\* Mutant: the table is never consulted, only the hardcoded identity.
get_current_user_fallback_only(table, up, token) ==
    LET payload == jwt_decode(token) IN
    IF ~payload.ok THEN Identity(401, "", "") ELSE fallback_user(payload.sub)

get_current_user(table, up, token) ==
    LET payload == jwt_decode(token) IN
    IF ~payload.ok THEN Identity(401, "", "")
    ELSE IF db_branch(table, up, payload.sub) = "hit"
         THEN Identity(200, payload.sub, table[payload.sub].role)
         ELSE fallback_user(payload.sub)

\* The tokens a client can present: one it holds, the same after its expiry,
\* or one signed with another key.
Expired(t) == [t EXCEPT !.exp = "past"]

Forged(u) == [sub |-> u, exp |-> "future", key |-> "forged"]

Presentable == tokens \cup {Expired(t) : t \in tokens} \cup {Forged("alice")}

\* ------------------------------------------------------------------ main.py
NoResponse == [op |-> "none"]

NoToken == [sub |-> "", exp |-> "", key |-> ""]

Idle == response.op = "none"

\* The table branch of login_for_access_token.
login_db_match(table, up, username, password) ==
    /\ up
    /\ username \in DOMAIN table
    /\ verify_password(password, table[username].password_hash)

login_fallback_match(username, password) ==
    /\ username \in DOMAIN FAKE_USERS_DB
    /\ verify_password(password, FAKE_USERS_DB[username].hashed_password)

login_result(table, up, username, password) ==
    IF username = "" \/ password = "" THEN [status |-> 400, access_token |-> NoToken]
    ELSE IF login_db_match(table, up, username, password)
         THEN [status |-> 200, access_token |-> create_access_token([sub |-> username])]
    ELSE IF login_fallback_match(username, password)
         THEN [status |-> 200, access_token |-> create_access_token([sub |-> username])]
    ELSE [status |-> 401, access_token |-> NoToken]

login_for_access_token(username, password) ==
    /\ Idle
    /\ LET r == login_result(users, dbUp, username, password) IN
       response' = [op |-> "token", username |-> username, password |-> password,
                    status |-> r.status, access_token |-> r.access_token]
    /\ UNCHANGED <<dbVars, tokens, procs, fileVars, modelVars>>

read_users_me(token) ==
    /\ Idle
    /\ LET cu == get_current_user(users, dbUp, token) IN
       response' = [op |-> "me", token |-> token, status |-> cu.status,
                    user_id |-> cu.user_id, role |-> cu.role]
    /\ UNCHANGED <<dbVars, tokens, procs, fileVars, modelVars>>

\* The client reads the response; a token it was issued is kept for later calls.
Receive ==
    /\ ~Idle
    /\ tokens' = IF response.op = "token" /\ response.status = 200
                 THEN tokens \cup {response.access_token} ELSE tokens
    /\ response' = NoResponse
    /\ UNCHANGED <<dbVars, procs, fileVars, modelVars>>

\* ------------------------------------------------- scripts_create_admin.py
create_admin(username, password) ==
    /\ dbUp
    /\ username \notin DOMAIN users
    /\ users' = [u \in DOMAIN users \cup {username} |->
                    IF u = username
                    THEN [password_hash |-> pbkdf_hash(password), role |-> "admin",
                          disabled |-> FALSE]
                    ELSE users[u]]
    /\ UNCHANGED <<company, dbUp, tokens, response, procs, fileVars, modelVars>>

\* ------------------------------------------------------------- environment
\* The `disabled` column is read by the application and written only outside
\* it (database administration).
DbaSetDisabled(username, flag) ==
    /\ username \in DOMAIN users
    /\ users[username].disabled # flag
    /\ users' = [users EXCEPT ![username].disabled = flag]
    /\ UNCHANGED <<company, dbUp, tokens, response, procs, fileVars, modelVars>>

\* The database becomes unreachable / reachable again: every query raises
\* while it is down.
DbToggle ==
    /\ dbUp' = ~dbUp
    /\ UNCHANGED <<users, company, tokens, response, procs, fileVars, modelVars>>


\* ------------------------------------------------------- crud.py, admin_api.py
NumProcs == 2

Procs == 1..NumProcs

IdleProc == [pc |-> "idle"]

\* require_admin on top of get_current_user: the status the dependency chain
\* ends with (200: the handler runs).
\* Mutant: only the doctor role is turned away.
require_admin_denies_doctor(current_user) ==
    IF current_user.status # 200 THEN current_user.status
    ELSE IF current_user.role = "doctor" THEN 403
    ELSE 200

require_admin(current_user) ==
    IF current_user.status # 200 THEN current_user.status
    ELSE IF current_user.role # "admin" THEN 403
    ELSE 200

AdminGate(token) == require_admin(get_current_user(users, dbUp, token))

create_user(table, username, password_hash, role) ==
    [u \in DOMAIN table \cup {username} |->
        IF u = username
        THEN [password_hash |-> password_hash, role |-> role, disabled |-> FALSE]
        ELSE table[u]]

\* Mutant: an unknown username gets a row with the role (an upsert).
set_user_role_upsert(table, username, role) ==
    IF username \notin DOMAIN table
    THEN [u \in DOMAIN table \cup {username} |->
            IF u = username
            THEN [password_hash |-> pwd_hash(""), role |-> role, disabled |-> FALSE]
            ELSE table[u]]
    ELSE [table EXCEPT ![username].role = role]

\* set_user_role returns None (the table untouched) for an unknown username.
set_user_role(table, username, role) ==
    IF username \notin DOMAIN table THEN table
    ELSE [table EXCEPT ![username].role = role]

\* select(CompanyProfile).first(): the id of the first row, 0 for None.
first_company(rows) == IF Len(rows) = 0 THEN 0 ELSE rows[1].id

\* The second half of upsert_company_profile, given what the SELECT returned.
upsert_company_profile(rows, profile, name) ==
    IF profile = 0
    THEN Append(rows, [id |-> Len(rows) + 1, name |-> name])
    ELSE [i \in 1..Len(rows) |->
            IF rows[i].id = profile THEN [rows[i] EXCEPT !.name = name] ELSE rows[i]]

get_company_profile(rows) ==
    IF Len(rows) = 0 THEN [id |-> 0, name |-> ""] ELSE rows[1]

admin_list_users(token) ==
    /\ Idle
    /\ LET gate == AdminGate(token) IN
       response' = [op |-> "admin_list_users", token |-> token, status |-> gate,
                    body |-> IF gate = 200 THEN DOMAIN users ELSE {}]
    /\ UNCHANGED <<dbVars, tokens, procs, fileVars, modelVars>>

\* A duplicate username violates the unique index: IntegrityError, a 500.
admin_create_user(token, username, password, role) ==
    /\ Idle
    /\ LET gate == AdminGate(token)
           status == IF gate # 200 THEN gate
                     ELSE IF username \in DOMAIN users THEN 500 ELSE 200
       IN  /\ response' = [op |-> "admin_create_user", token |-> token,
                           username |-> username, role |-> role, status |-> status]
           /\ users' = IF status = 200
                       THEN create_user(users, username, pwd_hash(password), role)
                       ELSE users
    /\ UNCHANGED <<company, dbUp, tokens, procs, fileVars, modelVars>>

admin_set_role(token, username, role) ==
    /\ Idle
    /\ LET gate == AdminGate(token)
           status == IF gate # 200 THEN gate
                     ELSE IF username \notin DOMAIN users THEN 404 ELSE 200
       IN  /\ response' = [op |-> "admin_set_role", token |-> token,
                           username |-> username, role |-> role, status |-> status]
           /\ users' = IF gate = 200 THEN set_user_role(users, username, role)
                       ELSE users
    /\ UNCHANGED <<company, dbUp, tokens, procs, fileVars, modelVars>>

\* POST /admin/company runs in the thread pool; its session SELECTs the first
\* row, and INSERTs or UPDATEs and COMMITs afterwards.
admin_upsert_company_select(p, token, name) ==
    /\ procs[p].pc = "idle"
    /\ Idle
    /\ LET gate == AdminGate(token) IN
       IF gate # 200
       THEN /\ response' = [op |-> "admin_upsert_company", token |-> token,
                            name |-> name, status |-> gate, company_id |-> 0]
            /\ UNCHANGED procs
       ELSE /\ procs' = [procs EXCEPT ![p] =
                           [pc |-> "upsert", token |-> token, name |-> name,
                            profile |-> first_company(company)]]
            /\ UNCHANGED response
    /\ UNCHANGED <<dbVars, tokens, fileVars, modelVars>>

admin_upsert_company_commit(p) ==
    /\ procs[p].pc = "upsert"
    /\ Idle
    /\ LET rows == upsert_company_profile(company, procs[p].profile, procs[p].name)
           id == IF procs[p].profile = 0 THEN Len(rows) ELSE procs[p].profile
       IN  /\ company' = IF dbUp THEN rows ELSE company
           /\ response' = [op |-> "admin_upsert_company", token |-> procs[p].token,
                           name |-> procs[p].name,
                           status |-> IF dbUp THEN 200 ELSE 500,
                           company_id |-> IF dbUp THEN id ELSE 0]
    /\ procs' = [procs EXCEPT ![p] = IdleProc]
    /\ UNCHANGED <<users, dbUp, tokens, fileVars, modelVars>>

admin_get_company(token) ==
    /\ Idle
    /\ LET gate == AdminGate(token) IN
       response' = [op |-> "admin_get_company", token |-> token, status |-> gate,
                    company |-> IF gate = 200 THEN get_company_profile(company)
                                ELSE [id |-> 0, name |-> ""]]
    /\ UNCHANGED <<dbVars, tokens, procs, fileVars, modelVars>>

\* list(csv.DictReader(f)): the first line names the fields, the others are rows.
csv_rows(lines) == IF Len(lines) = 0 THEN <<>> ELSE Tail(lines)

\* Python's seq[-limit:].  The start index -limit is taken from the end when
\* negative and from the front otherwise, clamped to the sequence.
slice_from_minus(seq, limit) ==
    LET n == Len(seq)
        start == IF -limit < 0 THEN (IF n - limit < 0 THEN 0 ELSE n - limit)
                 ELSE (IF -limit > n THEN n ELSE -limit)
    IN  SubSeq(seq, start + 1, n)

admin_list_audits(token, limit) ==
    /\ Idle
    /\ LET gate == AdminGate(token) IN
       response' = [op |-> "admin_list_audits", token |-> token, limit |-> limit,
                    status |-> gate,
                    rows |-> IF gate = 200
                             THEN slice_from_minus(csv_rows(audit_csv), limit)
                             ELSE <<>>]
    /\ UNCHANGED <<dbVars, tokens, procs, fileVars, modelVars>>

\* ------------------------------------------------------------------ model.py
\* Probabilities are in percent.  The simulator draws 0.3 + 0.4 * random();
\* a torch artifact may return any number, which predict clamps into [0, 1].
SimulatorDraws == {30, 50, 70}

TorchOutputs == {-20, 40, 120}

NoService == [exists |-> FALSE]

NewService == [exists |-> TRUE, loaded |-> FALSE, model |-> "None"]

\* ModelService._load: [raised, svc].  With the torch backend the artifact at
\* model_path is deserialized; a missing or unreadable one raises RuntimeError
\* before _model or _loaded is assigned.
load(svc, be, file) ==
    IF be = "torch"
    THEN IF file = "missing"
         THEN [raised |-> TRUE, svc |-> svc]
         ELSE [raised |-> FALSE, svc |-> [svc EXCEPT !.model = file, !.loaded = TRUE]]
    ELSE [raised |-> FALSE, svc |-> [svc EXCEPT !.model = "simulate", !.loaded = TRUE]]

\* Mutant: _load runs on the live object, nothing is cleared first.
reload_in_place(svc, be, file) == load(svc, be, file)

\* ModelService.reload: the flag and the reference are cleared, then _load runs.
reload(svc, be, file) ==
    load([svc EXCEPT !.loaded = FALSE, !.model = "None"], be, file)

\* get_model_service: the singleton is constructed on first use; when
\* __init__ raises, _MODEL_SERVICE stays None and the exception propagates.
get_model_service(holder, be, file) ==
    IF holder.exists THEN [raised |-> FALSE, svc |-> holder]
    ELSE LET r == load(NewService, be, file) IN
         IF r.raised THEN [raised |-> TRUE, svc |-> NoService] ELSE r

clamp(x) == IF x < 0 THEN 0 ELSE IF x > 100 THEN 100 ELSE x

finding(prob) == IF prob >= 50 THEN "suspicious lesion" ELSE "no acute findings"

\* ModelService.predict on a decoded image; `draw` is the simulator's random
\* number or the artifact's raw output.
predict(svc, be, draw) ==
    IF ~svc.loaded THEN [raised |-> TRUE, probability |-> 0, primary_finding |-> ""]
    ELSE LET prob == IF be = "torch" THEN clamp(draw) ELSE draw IN
         [raised |-> FALSE, probability |-> prob, primary_finding |-> finding(prob)]

status(svc, be) == [backend |-> be, loaded |-> svc.loaded]

\* POST /models/reload.
reload_model(token) ==
    /\ Idle
    /\ LET cu == get_current_user(users, dbUp, token)
           gate == require_admin(cu)
           ms == get_model_service(MODEL_SERVICE, backend, model_file)
           r == reload(ms.svc, backend, model_file)
       IN  IF gate # 200
           THEN /\ response' = [op |-> "reload", token |-> token, status |-> gate,
                                loaded |-> FALSE]
                /\ UNCHANGED MODEL_SERVICE
           ELSE IF ms.raised
           THEN /\ response' = [op |-> "reload", token |-> token, status |-> 500,
                                loaded |-> FALSE]
                /\ UNCHANGED MODEL_SERVICE
           ELSE /\ response' = [op |-> "reload", token |-> token,
                                status |-> IF r.raised THEN 500 ELSE 200,
                                loaded |-> r.svc.loaded]
                /\ MODEL_SERVICE' = r.svc
    /\ UNCHANGED <<dbVars, tokens, procs, fileVars, backend, model_file>>

\* GET /status (no authentication).
status_endpoint ==
    /\ Idle
    /\ LET ms == get_model_service(MODEL_SERVICE, backend, model_file) IN
       /\ response' = [op |-> "status", status |-> IF ms.raised THEN 500 ELSE 200,
                       loaded |-> IF ms.raised THEN FALSE ELSE ms.svc.loaded]
       /\ MODEL_SERVICE' = ms.svc
    /\ UNCHANGED <<dbVars, tokens, procs, fileVars, backend, model_file>>

\* The artifact at ONCOSCAN_MODEL_PATH is replaced or removed on disk.
ModelFileChange(file) ==
    /\ model_file # file
    /\ model_file' = file
    /\ UNCHANGED <<dbVars, tokens, response, procs, fileVars, MODEL_SERVICE, backend>>

\* ----------------------------------------------- utils_dicom.py, /predict
MaxUuid == 5

UPLOAD_DIR == <<"uploads">>

AUDIT_HEADER ==
    [audit_id |-> "audit_id", user_id |-> "user_id",
     filename |-> <<"filename">>, saved_path |-> <<"saved_path">>]

uuid4_hex(n) == "uuid" \o ToString(n)

RECURSIVE str_replace(_, _, _)
\* str.replace(old, new): the occurrences of old, left to right, not overlapping.
str_replace(s, old, new) ==
    IF Len(s) < Len(old) THEN s
    ELSE IF SubSeq(s, 1, Len(old)) = old
         THEN new \o str_replace(SubSeq(s, Len(old) + 1, Len(s)), old, new)
         ELSE <<s[1]>> \o str_replace(Tail(s), old, new)

endswith(s, suffix) ==
    /\ Len(s) >= Len(suffix)
    /\ SubSeq(s, Len(s) - Len(suffix) + 1, Len(s)) = suffix

safe_name(filename) == str_replace(str_replace(filename, <<".", ".">>, <<>>), <<"/">>, <<"_">>)

\* os.path.abspath(os.path.join(upload_dir, name)) for a name without "/" and
\* "..": the directory itself for "" and ".", a file in it otherwise.
saved_path(name) ==
    IF name = <<>> \/ name = <<".">> THEN UPLOAD_DIR ELSE UPLOAD_DIR \o <<"/">> \o name

\* load_image_from_bytes: [raised, modality]; `decodable` says whether the
\* parser the file name selects can read the bytes.
load_image_from_bytes(decodable, filename) ==
    IF ~decodable THEN [raised |-> TRUE, modality |-> ""]
    ELSE IF endswith(filename, <<".", "dcm">>) THEN [raised |-> FALSE, modality |-> "DICOM"]
    ELSE IF endswith(filename, <<".", "png">>) \/ endswith(filename, <<".", "jpg">>)
         THEN [raised |-> FALSE, modality |-> "CT"]
    ELSE [raised |-> FALSE, modality |-> "Unknown"]

\* The synthetic probability of the decode-failure branch:
\* round(random.uniform(0.01, 0.99), 4).
FallbackDraws == {1, 99}

\* Mutant: the first write creates the file with its header and drops the row.
audit_append_header_only(lines, row) ==
    IF Len(lines) = 0 THEN <<AUDIT_HEADER>> ELSE Append(lines, row)

\* The append to audit_log.csv: the header first when the file does not exist.
audit_append(lines, row) ==
    IF Len(lines) = 0 THEN <<AUDIT_HEADER, row>> ELSE Append(lines, row)

\* The DiagnosisResult, or the error response.  `decoded` (whether the loader
\* returned an image) and `strategy` (the ModelService._model that computed
\* the probability, "synthetic" for the decode-failure branch) are not sent:
\* they record what the handler did.
PredictResponse(st, filename, decoded, audit_id, user_id, modality, primary, prob, strategy) ==
    [op |-> "predict", status |-> st, filename |-> filename, decoded |-> decoded,
     audit_id |-> audit_id, user_id |-> user_id, scan_modality |-> modality,
     primary_finding |-> primary, probability_malignancy |-> prob,
     strategy |-> strategy]

PredictFailure(st, filename, decoded) ==
    PredictResponse(st, filename, decoded, "", "", "", "", 0, "")

\* predict_scan up to `await file.read()`: the dependency get_current_user.
predict_scan_begin(p, token) ==
    /\ procs[p].pc = "idle"
    /\ Idle
    /\ LET cu == get_current_user(users, dbUp, token) IN
       IF cu.status # 200
       THEN /\ response' = PredictFailure(cu.status, <<>>, FALSE)
            /\ UNCHANGED procs
       ELSE /\ procs' = [procs EXCEPT ![p] = [pc |-> "predict", user_id |-> cu.user_id]]
            /\ UNCHANGED response
    /\ UNCHANGED <<dbVars, tokens, fileVars, modelVars>>

\* predict_scan after the await, which runs to its end without yielding.
predict_scan_finish(p, upload_name, decodable) ==
    /\ procs[p].pc = "predict"
    /\ Idle
    /\ uuid_next < MaxUuid
    /\ LET named == upload_name # <<>>
           filename == IF named THEN upload_name
                       ELSE <<"upload_" \o uuid4_hex(uuid_next)>>
           uuid_a == IF named THEN uuid_next ELSE uuid_next + 1
           path == saved_path(safe_name(filename))
           img == load_image_from_bytes(decodable, filename)
           ms == get_model_service(MODEL_SERVICE, backend, model_file)
           audit_id == uuid4_hex(uuid_a)
           user_id == procs[p].user_id
       IN  IF path = UPLOAD_DIR
           THEN \* open(saved_path, 'wb') on a directory: IsADirectoryError
                /\ response' = PredictFailure(500, filename, FALSE)
                /\ uuid_next' = uuid_a
                /\ UNCHANGED <<audit_csv, uploads, MODEL_SERVICE>>
           ELSE IF ms.raised
           THEN /\ response' = PredictFailure(500, filename, ~img.raised)
                /\ uploads' = uploads \cup {path}
                /\ uuid_next' = uuid_a
                /\ UNCHANGED <<audit_csv, MODEL_SERVICE>>
           ELSE IF ~img.raised /\ ~ms.svc.loaded
           THEN \* ms.predict raises RuntimeError("Model not loaded")
                /\ response' = PredictFailure(500, filename, ~img.raised)
                /\ uploads' = uploads \cup {path}
                /\ uuid_next' = uuid_a
                /\ MODEL_SERVICE' = ms.svc
                /\ UNCHANGED audit_csv
           ELSE \E draw \in (IF img.raised THEN FallbackDraws
                             ELSE IF backend = "torch" THEN TorchOutputs
                             ELSE SimulatorDraws) :
                LET pred == predict(ms.svc, backend, draw)
                    prob == IF img.raised THEN draw ELSE pred.probability
                    primary == IF img.raised THEN "no acute findings"
                               ELSE pred.primary_finding
                    modality == IF img.raised THEN "Unknown" ELSE img.modality
                    row == [audit_id |-> audit_id, user_id |-> user_id,
                            filename |-> filename, saved_path |-> path]
                IN  /\ response' = PredictResponse(200, filename, ~img.raised, audit_id, user_id,
                                       modality, primary, prob,
                                       IF img.raised THEN "synthetic" ELSE ms.svc.model)
                    /\ uploads' = uploads \cup {path}
                    /\ audit_csv' = audit_append(audit_csv, row)
                    /\ uuid_next' = uuid_a + 1
                    /\ MODEL_SERVICE' = ms.svc
    /\ procs' = [procs EXCEPT ![p] = IdleProc]
    /\ UNCHANGED <<dbVars, tokens, backend, model_file>>

\* ------------------------------------------------------------ specifications
InitWith(be, file) ==
    /\ users = <<>>
    /\ company = <<>>
    /\ dbUp = TRUE
    /\ tokens = {}
    /\ response = NoResponse
    /\ procs = [p \in Procs |-> IdleProc]
    /\ audit_csv = <<>>
    /\ uploads = {}
    /\ MODEL_SERVICE = NoService
    /\ backend = be
    /\ model_file = file
    /\ uuid_next = 1

\* The default environment: ONCOSCAN_MODEL_BACKEND unset, no artifact.
Init == InitWith("simulate", "missing")

NextLogin ==
    \/ \E u \in Usernames \cup {""}, p \in Passwords : login_for_access_token(u, p)
    \/ \E t \in Presentable : read_users_me(t)
    \/ Receive
    \/ \E u \in Usernames, p \in Passwords : create_admin(u, p)
    \/ \E t \in tokens, u \in Usernames, p \in Passwords :
          admin_create_user(t, u, p, "doctor")
    \/ \E u \in Usernames, f \in BOOLEAN : DbaSetDisabled(u, f)
    \/ DbToggle

SpecLogin == Init /\ [][NextLogin]_vars

\* The admin routes, called with every token a client can present.
AdminLogins == {<<"doc_user", "securepass">>, <<"alice", "pw">>}

CompanyNames == {"Acme", "Onco"}

NextAdmin ==
    \/ \E c \in AdminLogins : login_for_access_token(c[1], c[2])
    \/ Receive
    \/ create_admin("alice", "pw")
    \/ \E t \in Presentable : admin_list_users(t)
    \/ \E t \in Presentable, u \in Usernames, r \in RoleInputs :
          admin_create_user(t, u, "pw", r)
    \/ \E t \in Presentable, u \in Usernames, r \in RoleInputs :
          admin_set_role(t, u, r)
    \/ \E t \in Presentable : admin_upsert_company_select(1, t, "Acme")
    \/ admin_upsert_company_commit(1)
    \/ \E t \in Presentable : admin_get_company(t)
    \/ \E t \in Presentable : admin_list_audits(t, 1)
    \/ \E u \in Usernames, f \in BOOLEAN : DbaSetDisabled(u, f)
    \/ DbToggle

SpecAdmin == Init /\ [][NextAdmin]_vars

\* POST and GET /admin/company by an admin, the POSTs overlapping.
NextCompany ==
    \/ login_for_access_token("alice", "pw")
    \/ Receive
    \/ create_admin("alice", "pw")
    \/ \E p \in Procs, t \in tokens, n \in CompanyNames :
          admin_upsert_company_select(p, t, n)
    \/ \E p \in Procs : admin_upsert_company_commit(p)
    \/ \E t \in tokens : admin_get_company(t)

SpecCompany == Init /\ [][NextCompany]_vars

\* /predict by the fallback identity, in every model configuration the
\* environment can give the process.
Backends == {"simulate", "torch"}

InitEnv == \E be \in Backends, file \in {"missing", "v1"} : InitWith(be, file)

SCAN_PNG == <<"scan", ".", "png">>

PredictNames == {SCAN_PNG, <<".", ".">>, <<>>}

NextPredict ==
    \/ login_for_access_token("doc_user", "securepass")
    \/ Receive
    \/ \E p \in Procs, t \in Presentable : predict_scan_begin(p, t)
    \/ \E p \in Procs, n \in PredictNames, d \in BOOLEAN : predict_scan_finish(p, n, d)

SpecPredict == InitEnv /\ [][NextPredict]_vars

\* The model service under reloads, with the artifact changing on disk.
ModelFiles == {"missing", "v1", "v2"}

NextModel ==
    \/ create_admin("alice", "pw")
    \/ login_for_access_token("alice", "pw")
    \/ Receive
    \/ \E p \in Procs, t \in tokens : predict_scan_begin(p, t)
    \/ \E p \in Procs, d \in BOOLEAN : predict_scan_finish(p, SCAN_PNG, d)
    \/ \E t \in Presentable : reload_model(t)
    \/ status_endpoint
    \/ \E f \in ModelFiles : ModelFileChange(f)

SpecModel == InitEnv /\ [][NextModel]_vars

\* /predict with client-supplied file names made of ".", ".." and "/"
\* sequences and an absolute path, next to a plain name.
UploadNames ==
    {SCAN_PNG,
     <<".">>,
     <<".", ".">>,
     <<".", ".", ".">>,
     <<".", "/">>,
     <<".", ".", "/", "etc">>,
     <<".", ".", ".", ".", "/", "/", "etc">>,
     <<"/", "etc">>}

NextUpload ==
    \/ login_for_access_token("doc_user", "securepass")
    \/ Receive
    \/ \E t \in tokens : predict_scan_begin(1, t)
    \/ \E n \in UploadNames, d \in BOOLEAN : predict_scan_finish(1, n, d)

SpecUpload == Init /\ [][NextUpload]_vars

\* GET /admin/audits by an admin over a log that /predict fills; `limit` is
\* any int (the route declares no range).
AuditLimits == {-1, 0, 1, 2, 50}

NextAudit ==
    \/ create_admin("alice", "pw")
    \/ \E c \in AdminLogins : login_for_access_token(c[1], c[2])
    \/ Receive
    \/ \E t \in tokens : predict_scan_begin(1, t)
    \/ \E d \in BOOLEAN : predict_scan_finish(1, SCAN_PNG, d)
    \/ \E t \in tokens, l \in AuditLimits : admin_list_audits(t, l)

SpecAudit == Init /\ [][NextAudit]_vars

\* ------------------------------------------------------- claims on /token
\* A step in which the named handler answers.
Answers(op) == response.op = "none" /\ response'.op = op

\* (username, password) matches a row of the user table.
StoredMatch(u, p) ==
    u \in DOMAIN users /\ verify_password(p, users[u].password_hash)

C2_AsStated ==
    [][(Answers("token") /\ dbUp
         /\ response'.username \in DOMAIN users
         /\ response'.password # ""
         /\ ~StoredMatch(response'.username, response'.password))
       => /\ response'.status = 401
          /\ response'.access_token = NoToken]_vars

\* C7 as stated: /token for a stored user whose disabled flag is set issues
\* no token, even when the password is correct (checked for usernames other
\* than the fallback identity's, so that only the table decides).
C7_AsStated ==
    [][(Answers("token") /\ dbUp
         /\ response'.username \in DOMAIN users
         /\ response'.username \notin DOMAIN FAKE_USERS_DB
         /\ users[response'.username].disabled)
       => /\ response'.status # 200
          /\ response'.access_token = NoToken]_vars

\* ------------------------------------------------- claims on /admin/*
AdminOps == {"admin_list_users", "admin_create_user", "admin_set_role",
             "admin_upsert_company", "admin_get_company", "admin_list_audits"}

\* The role a presented token stands for, read off the tables: the stored
\* role of an enabled row the table returns, "doctor" for the fallback
\* identity otherwise, "none" when the token resolves to nobody.
RoleOf(token) ==
    IF token.key # SECRET_KEY \/ token.exp # "future" THEN "none"
    ELSE IF dbUp /\ token.sub \in DOMAIN users /\ ~users[token.sub].disabled
         THEN users[token.sub].role
    ELSE IF token.sub = "doc_user" THEN "doctor"
    ELSE "none"

\* A step in which an admin route answers without having run its handler
\* body in this step's worker (the dependency chain answered, or the handler
\* is a single step).
GateAnswers == response.op = "none" /\ response'.op \in AdminOps /\ procs' = procs

\* A step in which POST /admin/company passes its dependencies with `token`.
UpsertStarts(token) ==
    \E p \in Procs : /\ procs[p].pc = "idle"
                     /\ procs'[p].pc = "upsert"
                     /\ procs'[p].token = token

\* C3: every /admin/* route answers 403 when the caller's token resolves to a
\* role other than admin and runs its handler when it resolves to admin; the
\* role is the stored one at request time, and the fallback identity's is
\* doctor.
C3_AdminGate ==
    [][/\ GateAnswers =>
            LET role == RoleOf(response'.token) IN
            /\ role = "none" => response'.status = 401
            /\ role \notin {"none", "admin"} => response'.status = 403
            /\ role = "admin" => /\ response'.status \notin {401, 403}
                                 /\ response'.op # "admin_upsert_company"
       /\ \A t \in Presentable : UpsertStarts(t) => RoleOf(t) = "admin"]_vars

\* A stored non-admin (created or demoted by an admin whose call went
\* through) is turned away with 403.
C3_Witness ==
    /\ response.op \in AdminOps
    /\ response.status = 403
    /\ response.token.sub \in DOMAIN users
    /\ ~users[response.token.sub].disabled
    /\ users[response.token.sub].role = "nurse"
    /\ dbUp

\* C8 as stated: every stored user's role is admin or doctor.
C8_AsStated == \A u \in DOMAIN users : users[u].role \in {"admin", "doctor"}

\* C9: POST /admin/users/{username}/role for a username the table does not
\* hold leaves the table unchanged, and answers 404 to an admin.
C9_UnknownUser ==
    [][(Answers("admin_set_role") /\ response'.username \notin DOMAIN users)
       => /\ users' = users
          /\ RoleOf(response'.token) = "admin" => response'.status = 404]_vars

C9_Witness ==
    /\ response.op = "admin_set_role"
    /\ response.status = 404
    /\ response.username \notin DOMAIN users

\* ------------------------------------------------- claims on /admin/company
\* C6 as stated: the company profile table holds at most one row in every
\* reachable state, concurrent POST /admin/company calls included.
C6_AsStated == Len(company) <= 1

\* ------------------------------------------------- claims on /predict
\* A step in which predict_scan runs from its await to its end.
PredictFinishes ==
    /\ Answers("predict")
    /\ \E p \in Procs : procs[p].pc = "predict" /\ procs'[p].pc = "idle"

\* C4: every /predict that answers 200 appends exactly one row to the audit
\* log (the earlier rows stay); the row's audit_id is the response's and
\* differs from the audit_id of every other row.
C4_OneUniqueRow ==
    [][(Answers("predict") /\ response'.status = 200)
       => LET before == csv_rows(audit_csv)
              after == csv_rows(audit_csv')
          IN  /\ Len(after) = Len(before) + 1
              /\ SubSeq(after, 1, Len(before)) = before
              /\ after[Len(after)].audit_id = response'.audit_id
              /\ \A i \in 1..Len(before) : before[i].audit_id # response'.audit_id]_vars

\* A second request was answered 200 while another request was suspended in
\* the handler.
C4_Witness ==
    /\ response.op = "predict"
    /\ response.status = 200
    /\ Len(csv_rows(audit_csv)) >= 2
    /\ \E p \in Procs : procs[p].pc = "predict"

\* C5 as stated: an authenticated /predict whose bytes cannot be decoded never
\* fails, whatever the state of the model service: it answers 200 with
\* modality "Unknown", finding "no acute findings" and a probability in
\* [0, 1], and the audit log grows by one row (stated for the upload name of
\* the spec's scenario, scan.png).
C5_AsStated ==
    [][(PredictFinishes /\ ~response'.decoded /\ response'.filename = SCAN_PNG)
       => /\ response'.status = 200
          /\ response'.scan_modality = "Unknown"
          /\ response'.primary_finding = "no acute findings"
          /\ response'.probability_malignancy \in 0..100
          /\ Len(csv_rows(audit_csv')) = Len(csv_rows(audit_csv)) + 1]_vars

\* ------------------------------------------------- claims on the model service
Complete(svc) == svc.loaded /\ svc.model # "None"

Cleared(svc) == ~svc.loaded /\ svc.model = "None"

\* What a successful _load installs in the current environment.
CurrentStrategy == IF backend = "torch" THEN model_file ELSE "simulate"

\* C10 as stated: reload swaps the artifact atomically; a predict whose
\* request is suspended in the handler while a reload runs finds the complete
\* old or the complete new strategy, never a service whose loaded flag is
\* cleared or whose artifact reference is absent.
C10_AsStated ==
    (/\ response.op = "reload"
     /\ response.status \in {200, 500}
     /\ MODEL_SERVICE.exists
     /\ \E p \in Procs : procs[p].pc = "predict")
    => Complete(MODEL_SERVICE)

\* C10 amended: reload is destructive, not an atomic swap.  It leaves the
\* service either complete with the strategy the environment now gives (and
\* answers 200) or, when the load raises, cleared: flag false and reference
\* absent, the old artifact gone (a 500).  The flag and the reference always
\* agree.  A predict on a decoded image, one that overlapped a reload
\* included, completes with the complete strategy the service holds at that
\* moment, or fails (500) because the service is cleared or cannot be
\* constructed; it never returns a result from a cleared service.
C10_Destructive ==
    [][/\ MODEL_SERVICE'.exists => (Complete(MODEL_SERVICE') \/ Cleared(MODEL_SERVICE'))
       /\ (Answers("reload") /\ response'.status \in {200, 500} /\ MODEL_SERVICE'.exists)
          => \/ /\ response'.status = 200
                /\ Complete(MODEL_SERVICE')
                /\ MODEL_SERVICE'.model = CurrentStrategy
             \/ /\ response'.status = 500
                /\ Cleared(MODEL_SERVICE')
       /\ (PredictFinishes /\ response'.decoded)
          => \/ /\ response'.status = 200
                /\ MODEL_SERVICE.exists => Complete(MODEL_SERVICE)
                /\ Complete(MODEL_SERVICE')
                /\ response'.strategy = MODEL_SERVICE'.model
             \/ /\ response'.status = 500
                /\ MODEL_SERVICE.exists => Cleared(MODEL_SERVICE)
                /\ MODEL_SERVICE'.exists => Cleared(MODEL_SERVICE')]_vars

\* A reload installed a new artifact over an old one while a /predict request
\* was suspended in the handler.
C10_Witness ==
    /\ response.op = "reload"
    /\ response.status = 200
    /\ MODEL_SERVICE.exists
    /\ MODEL_SERVICE.model = "v2"
    /\ \E p \in Procs : procs[p].pc = "predict"

\* The service can compute a result: an object exists, its flag is set and it
\* holds a strategy.
Ready(holder) == holder.exists /\ Complete(holder)

\* The failed state of the service: an object whose status() reports loaded
\* false and which holds no artifact.
Failed(holder) == holder.exists /\ Cleared(holder)

\* A step in which a load was attempted and raised: the first construction
\* under GET /status, or ModelService.reload under POST /models/reload.
LoadFails ==
    \/ Answers("status") /\ response'.status = 500
    \/ Answers("reload") /\ response'.status = 500

\* C11 as stated: predict() returns a result only from a ready service; a
\* load or reload that fails leaves the service in failed (an object whose
\* status().loaded is false and which holds no artifact); a service that is
\* not ready fails every predict(); with the simulator backend a load always
\* ends in ready.
C11_AsStated ==
    [][/\ (PredictFinishes /\ response'.decoded /\ response'.status = 200)
          => Ready(MODEL_SERVICE')
       /\ LoadFails => Failed(MODEL_SERVICE')
       /\ (PredictFinishes /\ response'.decoded
            /\ MODEL_SERVICE.exists /\ ~Complete(MODEL_SERVICE))
          => response'.status = 500
       /\ ((Answers("status") \/ (Answers("reload") /\ response'.status \in {200, 500}))
            /\ backend = "simulate")
          => Ready(MODEL_SERVICE')]_vars

\* ------------------------------------------------- claims on get_current_user
\* C12 as stated: a request whose valid token names a stored user with the
\* disabled flag set (the table reachable) is never resolved to an identity,
\* the fallback identity of the same name included.  (The claim also names the
\* error, inactive user, a 400; the code answers 401 where it rejects.)
C12_AsStated ==
    [][(Answers("me") /\ dbUp
         /\ jwt_decode(response'.token).ok
         /\ response'.token.sub \in DOMAIN users
         /\ users[response'.token.sub].disabled)
       => /\ response'.status # 200
          /\ response'.user_id = ""]_vars

\* ------------------------------------------------- claims on the upload path
\* The name holds no separator and no ".." sequence.
NoTraversal(name) ==
    /\ \A i \in 1..Len(name) : name[i] # "/"
    /\ \A i \in 1..(Len(name) - 1) : ~(name[i] = "." /\ name[i + 1] = ".")

\* The path names an entry of the uploads directory: the directory, one
\* separator, and a name that is not empty, not "." and holds no separator.
StrictlyInside(path) ==
    /\ Len(path) > Len(UPLOAD_DIR) + 1
    /\ SubSeq(path, 1, Len(UPLOAD_DIR) + 1) = UPLOAD_DIR \o <<"/">>
    /\ LET name == SubSeq(path, Len(UPLOAD_DIR) + 2, Len(path)) IN
       /\ NoTraversal(name)
       /\ name # <<".">>

\* C13 as stated: for every client-supplied file name, the sanitized name
\* holds no traversal sequence and no separator, and the raw upload is written
\* to a path strictly inside the uploads directory, never the directory
\* itself or a location outside it.
C13_AsStated ==
    [][PredictFinishes
       => LET name == safe_name(response'.filename)
              path == saved_path(name)
          IN  /\ NoTraversal(name)
              /\ StrictlyInside(path)
              /\ path \in uploads']_vars

\* ------------------------------------------------- claims on /admin/audits
min(a, b) == IF a < b THEN a ELSE b

max(a, b) == IF a > b THEN a ELSE b

\* C14 as stated: GET /admin/audits?limit=N answers, for every int N and a
\* log of n records, with the final min(N, n) records in file order, never
\* more than N records (no record for N <= 0).
C14_AsStated ==
    [][(Answers("admin_list_audits") /\ response'.status = 200)
       => LET all_rows == csv_rows(audit_csv)
              n == Len(all_rows)
              k == max(0, min(response'.limit, n))
          IN  /\ Len(response'.rows) <= max(0, response'.limit)
              /\ response'.rows = SubSeq(all_rows, n - k + 1, n)]_vars

====
